---- MODULE Spec2Model ----
(***************************************************************************)
(* State-machine model of the order lifecycle engine of ecommerce_fastapi: *)
(* the catalog, cart, order and payment handlers of src/core, each HTTP    *)
(* handler one atomic action over the rows of the shared database.         *)
(*                                                                         *)
(* Rows are identified as the tables identify them: a customer by the id   *)
(* of its user (customers.user_id is unique), a cart and an order by their *)
(* position in the table (autoincrement id), a cart item by its cart and   *)
(* its position among that cart's rows.  Prices are in whole units of the  *)
(* Numeric(10, 2) column.                                                  *)
(*                                                                         *)
(* Two columns the handlers use are not declared in src/core/models.py:    *)
(* Cart.is_active (order.py:95) and Order.transaction_uuid (esewa.py:117). *)
(* They are modelled as the specification describes them: every cart is    *)
(* active, and the transaction reference is a stored, initially empty      *)
(* column of the order.                                                    *)
(***************************************************************************)
EXTENDS Integers, Sequences, FiniteSets, TLC

\* ------------------------------------------------------------ bounds
\* The counters the handlers never cap, capped: the quantity of a cart line,
\* the rows of cart_items, the rows of orders, the uuids generated.
MaxQty == 2
MaxLines == 2
MaxOrders == 2
MaxUuid == 2

\* The ids and amounts the requests are drawn from.
Users == {1, 2}
Products == {1, 2}
Prices == {1, 2}
Fees == {0, 1}
CartIds == {1, 2}
OrderIds == 1..MaxOrders
Lines == 1..MaxLines

\* ------------------------------------------------------------ enums
\* OrderStatusEnum
PENDING == "P"
CONFIRM == "CF"
REJECTED == "R"
CANCELLED == "C"
OrderStatusEnum == {PENDING, CONFIRM, REJECTED, CANCELLED}

\* PaymentModeEnum
PM_PENDING == "P"
CASH == "C"
ESEWA == "E"
PaymentModeEnum == {PM_PENDING, CASH, ESEWA}

\* The transaction_uuid column before any reference is stored.
NoRef == 0

\* Every cart row passes the filter Cart.is_active == True.
CartIsActive(cart) == TRUE

\* ------------------------------------------------------------ state
VARIABLES
    customers,  \* users that have a Customer profile
    price,      \* products table: price[p], 0 when there is no row p
    carts,      \* carts table: <<[customer_id, items: <<[product_id, qty]>>]>>
    orders,     \* orders table: <<[customer_id, status, payment_mode, is_paid,
                \*                  transaction_uuid, items: <<[product_id, qty, price]>>]>>
    uuids,      \* number of transaction uuids generated so far
    resp,       \* the response of the last request
    calls       \* the requests in flight: where each one stands in its
                \* handler, and what its session has read

vars == <<customers, price, carts, orders, uuids, resp, calls>>
db == <<customers, price, carts, orders, uuids>>

\* ------------------------------------------------------------ responses
Response(op, detail) == [op |-> op, detail |-> detail, ret |-> NoRef, amount |-> 0]

OK == "ok"
Unhandled == "Internal Server Error"
Unprocessable == "Unprocessable Entity"

\* The requests that can be in flight at once, and a request that is not.
Requests == {1, 2}
NoRow == [status |-> "", payment_mode |-> "", is_paid |-> FALSE]
Idle == [pc |-> "idle", u |-> 0, id |-> 0, product_id |-> 0, qty |-> 0,
         row |-> 0, row_qty |-> 0, mode |-> "", seen |-> NoRow, lines |-> <<>>]

\* The columns of an orders row the handlers test and write, as a session
\* holds them once it has loaded the row.
Columns(order) ==
    [status |-> order.status, payment_mode |-> order.payment_mode,
     is_paid |-> order.is_paid]

\* The UPDATE a commit emits for a loaded row: the columns whose value the
\* session changed, written over whatever the row holds by now.
Flush(row, old, new) ==
    [row EXCEPT !.status = IF new.status # old.status THEN new.status ELSE @,
                !.payment_mode = IF new.payment_mode # old.payment_mode
                                 THEN new.payment_mode ELSE @,
                !.is_paid = IF new.is_paid # old.is_paid THEN new.is_paid ELSE @]

\* An HTTPException raised before any write: the response, and no change.
Raise(op, detail) == resp' = Response(op, detail) /\ UNCHANGED <<db, calls>>

Init ==
    /\ customers = {}
    /\ price = [p \in Products |-> 0]
    /\ carts = <<>>
    /\ orders = <<>>
    /\ uuids = 0
    /\ resp = Response("start", OK)
    /\ calls = [r \in Requests |-> Idle]

\* ------------------------------------------------------------ helpers
RECURSIVE SumSeq(_)
SumSeq(s) == IF s = <<>> THEN 0 ELSE Head(s) + SumSeq(Tail(s))

RECURSIVE Flatten(_)
Flatten(ss) == IF ss = <<>> THEN <<>> ELSE Head(ss) \o Flatten(Tail(ss))

\* ------------------------------------------------------------ accounts
\* POST / : create the caller's Customer profile.
CreateCustomer(u) ==
    IF u \in customers
    THEN Raise("create_customer", "Customer profile already exists")
    ELSE /\ customers' = customers \cup {u}
         /\ resp' = Response("create_customer", OK)
         /\ UNCHANGED <<price, carts, orders, uuids, calls>>

\* GET /orders : list the caller's orders, creating the profile when missing.
MyOrders(u) ==
    /\ customers' = customers \cup {u}
    /\ resp' = Response("my_orders", OK)
    /\ UNCHANGED <<price, carts, orders, uuids, calls>>

\* ------------------------------------------------------------ catalog
\* POST /products : a new row; its id is one no row of the table holds.
CreateProduct(p, pr) ==
    /\ price[p] = 0
    /\ price' = [price EXCEPT ![p] = pr]
    /\ resp' = Response("create_product", OK)
    /\ UNCHANGED <<customers, carts, orders, uuids, calls>>

\* An update_product under which order items follow the catalog price.
UpdateProductRepricing(p, pr) ==
    IF price[p] = 0
    THEN Raise("update_product", "Product not found")
    ELSE /\ price' = [price EXCEPT ![p] = pr]
         /\ orders' = [o \in DOMAIN orders |->
                        [orders[o] EXCEPT !.items =
                            [i \in DOMAIN orders[o].items |->
                                IF orders[o].items[i].product_id = p
                                THEN [product_id |-> p,
                                      qty |-> orders[o].items[i].qty,
                                      price |-> pr]
                                ELSE orders[o].items[i]]]]
         /\ resp' = Response("update_product", OK)
         /\ UNCHANGED <<customers, carts, uuids, calls>>

\* PUT /products/{product_id} : setattr(db_product, "price", value).
UpdateProduct(p, pr) ==
    IF price[p] = 0
    THEN Raise("update_product", "Product not found")
    ELSE /\ price' = [price EXCEPT ![p] = pr]
         /\ resp' = Response("update_product", OK)
         /\ UNCHANGED <<customers, carts, orders, uuids, calls>>

\* The rows left in a child table once product p is deleted: cart_items by
\* the relationship Product.cart_items (cascade "all, delete"), order_items
\* by their foreign key products.id (ondelete "CASCADE").
CascadeProduct(items, p) == SelectSeq(items, LAMBDA it : it.product_id # p)

\* DELETE /products/{product_id}
DeleteProduct(p) ==
    IF price[p] = 0
    THEN Raise("delete_product", "Product not found")
    ELSE /\ price' = [price EXCEPT ![p] = 0]
         /\ carts' = [c \in DOMAIN carts |->
                        [carts[c] EXCEPT !.items = CascadeProduct(@, p)]]
         /\ orders' = [o \in DOMAIN orders |->
                        [orders[o] EXCEPT !.items = CascadeProduct(@, p)]]
         /\ resp' = Response("delete_product", OK)
         /\ UNCHANGED <<customers, uuids, calls>>

\* ------------------------------------------------------------ carts
\* POST /carts/{customer_id} : the INSERT fails on the foreign key
\* customers.id when there is no such customer, and nothing catches it.
CreateCart(customer_id) ==
    IF customer_id \notin customers
    THEN Raise("create_cart", Unhandled)
    ELSE /\ Len(carts) + 1 \in CartIds
         /\ carts' = Append(carts, [customer_id |-> customer_id, items |-> <<>>])
         /\ resp' = Response("create_cart", OK)
         /\ UNCHANGED <<customers, price, orders, uuids, calls>>

\* The first row of the cart holding product p, 0 when there is none.
FirstItem(items, p) ==
    LET hits == {i \in DOMAIN items : items[i].product_id = p}
    IN IF hits = {} THEN 0 ELSE CHOOSE i \in hits : \A j \in hits : i <= j

\* The number of rows of the cart_items table.
CartItemRows == SumSeq([c \in DOMAIN carts |-> Len(carts[c].items)])

\* POST /carts/{cart_id}/items : CartItemCreate.qty is Field(gt=0), so a body
\* with qty <= 0 is refused before the handler's own test of it runs.
AddItemToCart(cart_id, p, qty) ==
    IF qty <= 0
    THEN Raise("add_item_to_cart", Unprocessable)
    ELSE IF cart_id \notin DOMAIN carts
    THEN Raise("add_item_to_cart", "Cart not found")
    ELSE IF price[p] = 0
    THEN Raise("add_item_to_cart", "Product not found")
    ELSE LET items == carts[cart_id].items
             i == FirstItem(items, p)
         IN /\ IF i # 0
               THEN /\ items[i].qty + qty <= MaxQty
                    /\ carts' = [carts EXCEPT ![cart_id].items[i].qty = @ + qty]
               ELSE /\ CartItemRows < MaxLines
                    /\ carts' = [carts EXCEPT ![cart_id].items =
                                    Append(@, [product_id |-> p, qty |-> qty])]
            /\ resp' = Response("add_item_to_cart", OK)
            /\ UNCHANGED <<customers, price, orders, uuids, calls>>

\* An update_cart_item whose body is not validated.
UpdateCartItemAnyQty(cart_id, i, qty) ==
    IF cart_id \notin DOMAIN carts \/ i \notin DOMAIN carts[cart_id].items
    THEN Raise("update_cart_item", "Cart item not found")
    ELSE /\ carts' = [carts EXCEPT ![cart_id].items[i].qty = qty]
         /\ resp' = Response("update_cart_item", OK)
         /\ UNCHANGED <<customers, price, orders, uuids, calls>>

\* PUT /carts/items/{item_id} : CartItemUpdate.qty is Field(gt=0), so a
\* body with qty <= 0 is refused before the handler runs.
UpdateCartItem(cart_id, i, qty) ==
    IF qty <= 0
    THEN Raise("update_cart_item", Unprocessable)
    ELSE IF cart_id \notin DOMAIN carts \/ i \notin DOMAIN carts[cart_id].items
    THEN Raise("update_cart_item", "Cart item not found")
    ELSE /\ carts' = [carts EXCEPT ![cart_id].items[i].qty = qty]
         /\ resp' = Response("update_cart_item", OK)
         /\ UNCHANGED <<customers, price, orders, uuids, calls>>

\* DELETE /carts/items/{item_id}
RemoveCartItem(cart_id, i) ==
    IF cart_id \notin DOMAIN carts \/ i \notin DOMAIN carts[cart_id].items
    THEN Raise("remove_cart_item", "Cart item not found")
    ELSE /\ carts' = [carts EXCEPT ![cart_id].items =
                         SubSeq(@, 1, i - 1) \o SubSeq(@, i + 1, Len(@))]
         /\ resp' = Response("remove_cart_item", OK)
         /\ UNCHANGED <<customers, price, orders, uuids, calls>>

\* add_item_to_cart step by step, for requests that run at once, each in its
\* own session.  First the validation and the three queries: the session
\* holds the cart_items row of the product, if there is one, as it read it.
AddItemRead(r, cart_id, p, qty) ==
    /\ calls[r].pc = "idle"
    /\ IF qty <= 0
       THEN Raise("add_item_to_cart", Unprocessable)
       ELSE IF cart_id \notin DOMAIN carts
       THEN Raise("add_item_to_cart", "Cart not found")
       ELSE IF price[p] = 0
       THEN Raise("add_item_to_cart", "Product not found")
       ELSE LET items == carts[cart_id].items
                i == FirstItem(items, p)
            IN /\ calls' = [calls EXCEPT ![r] =
                              [Idle EXCEPT !.pc = "add", !.id = cart_id,
                                  !.product_id = p, !.qty = qty, !.row = i,
                                  !.row_qty = IF i = 0 THEN 0 ELSE items[i].qty]]
               /\ UNCHANGED <<db, resp>>

\* Then "add or increment" and the commit: an UPDATE of the row to the
\* quantity the session read plus data.qty, or an INSERT of a new row.  An
\* UPDATE that finds its row gone raises, unhandled.
AddItemCommit(r) ==
    /\ calls[r].pc = "add"
    /\ calls' = [calls EXCEPT ![r] = Idle]
    /\ LET c == calls[r]
       IN IF c.row # 0 /\ c.row \notin DOMAIN carts[c.id].items
          THEN resp' = Response("add_item_to_cart", Unhandled) /\ UNCHANGED db
          ELSE /\ IF c.row # 0
                  THEN /\ c.row_qty + c.qty <= MaxQty
                       /\ carts' = [carts EXCEPT
                                       ![c.id].items[c.row].qty = c.row_qty + c.qty]
                  ELSE /\ CartItemRows < MaxLines
                       /\ carts' = [carts EXCEPT ![c.id].items =
                                       Append(@, [product_id |-> c.product_id,
                                                  qty |-> c.qty])]
               /\ resp' = Response("add_item_to_cart", OK)
               /\ UNCHANGED <<customers, price, orders, uuids>>

\* ------------------------------------------------------------ placement
\* The storage call of place_order_service that raises SQLAlchemyError, if any.
PlaceFailPoints ==
    {"none", "query", "flush", "load_price", "bulk_save", "delete", "commit", "refresh"}

Created == "created"
CartEmpty == "Cart is empty"
PlacementFailed == "Order placement failed"
NoCustomer == "Customer profile not found"
OrderNotFound == "Order not found"

\* db.query(CartItem).join(Cart).filter(Cart.customer_id == customer.id,
\* Cart.is_active == True).all()
CartItemsOf(customer_id) ==
    Flatten([c \in DOMAIN carts |->
                IF carts[c].customer_id = customer_id /\ CartIsActive(carts[c])
                THEN carts[c].items ELSE <<>>])

\* A placement that lets an empty cart through.
CartIsEmptyNever(cart_items) == FALSE

\* if not cart_items
CartIsEmpty(cart_items) == cart_items = <<>>

\* OrderItem(order_id, product_id=item.product_id, qty=item.qty,
\* price=item.product.price) for item in cart_items
OrderItemsFrom(cart_items) ==
    [i \in DOMAIN cart_items |->
        [product_id |-> cart_items[i].product_id,
         qty |-> cart_items[i].qty,
         price |-> price[cart_items[i].product_id]]]

\* An order born paid.
NewOrderPaid(customer_id, cart_items) ==
    [customer_id |-> customer_id,
     status |-> PENDING,
     payment_mode |-> PM_PENDING,
     is_paid |-> TRUE,
     transaction_uuid |-> NoRef,
     items |-> OrderItemsFrom(cart_items)]

\* Order(customer_id, delivery_address, status="P", is_paid=False) with the
\* column defaults of models.Order.
NewOrder(customer_id, cart_items) ==
    [customer_id |-> customer_id,
     status |-> PENDING,
     payment_mode |-> PM_PENDING,
     is_paid |-> FALSE,
     transaction_uuid |-> NoRef,
     items |-> OrderItemsFrom(cart_items)]

\* A placement that leaves the cart as it was.
ClearedCartsNot(customer_id) == carts

\* for item in cart_items: db.delete(item)
ClearedCarts(customer_id) ==
    [c \in DOMAIN carts |->
        IF carts[c].customer_id = customer_id /\ CartIsActive(carts[c])
        THEN [carts[c] EXCEPT !.items = <<>>] ELSE carts[c]]

\* POST /orders : place_order_service.  The cart query runs outside the try
\* block; flush, the price loads, bulk_save_objects, the deletes, commit and
\* refresh run inside it, and refresh runs after the commit.
PlaceOrder(u, fail) ==
    IF u \notin customers
    THEN Raise("place_order", NoCustomer)
    ELSE IF fail = "query"
    THEN Raise("place_order", Unhandled)
    ELSE IF CartIsEmpty(CartItemsOf(u))
    THEN Raise("place_order", CartEmpty)
    ELSE IF fail \in {"flush", "load_price", "bulk_save", "delete", "commit"}
    THEN Raise("place_order", PlacementFailed)
    ELSE /\ Len(orders) < MaxOrders
         /\ orders' = Append(orders, NewOrder(u, CartItemsOf(u)))
         /\ carts' = ClearedCarts(u)
         /\ resp' = Response("place_order",
                              IF fail = "refresh" THEN PlacementFailed ELSE Created)
         /\ UNCHANGED <<customers, price, uuids, calls>>

\* ------------------------------------------------------------ order state
\* db.query(Order).filter(Order.id == order_id, Order.customer_id == customer.id)
OwnOrder(u, order_id) ==
    order_id \in DOMAIN orders /\ orders[order_id].customer_id = u

\* A cancel_order that writes the wrong status letter.
CancelOrderRejecting(u, order_id) ==
    IF u \notin customers
    THEN Raise("cancel_order", NoCustomer)
    ELSE IF ~OwnOrder(u, order_id)
    THEN Raise("cancel_order", OrderNotFound)
    ELSE IF orders[order_id].status # PENDING
    THEN Raise("cancel_order", "Only pending orders can be cancelled")
    ELSE /\ orders' = [orders EXCEPT ![order_id].status = REJECTED]
         /\ resp' = Response("cancel_order", OK)
         /\ UNCHANGED <<customers, price, carts, uuids, calls>>

\* A cancel_order that does not look at the status.
CancelOrderAnyStatus(u, order_id) ==
    IF u \notin customers
    THEN Raise("cancel_order", NoCustomer)
    ELSE IF ~OwnOrder(u, order_id)
    THEN Raise("cancel_order", OrderNotFound)
    ELSE /\ orders' = [orders EXCEPT ![order_id].status = CANCELLED]
         /\ resp' = Response("cancel_order", OK)
         /\ UNCHANGED <<customers, price, carts, uuids, calls>>

\* PATCH /orders/{order_id}/cancel
CancelOrder(u, order_id) ==
    IF u \notin customers
    THEN Raise("cancel_order", NoCustomer)
    ELSE IF ~OwnOrder(u, order_id)
    THEN Raise("cancel_order", OrderNotFound)
    ELSE IF orders[order_id].status # PENDING
    THEN Raise("cancel_order", "Only pending orders can be cancelled")
    ELSE /\ orders' = [orders EXCEPT ![order_id].status = CANCELLED]
         /\ resp' = Response("cancel_order", OK)
         /\ UNCHANGED <<customers, price, carts, uuids, calls>>

\* A payment logic under which choosing eSewa only records the mode.
ApplyPaymentModeGatewayIntent(order, payment_mode) ==
    IF payment_mode = CASH
    THEN [order EXCEPT !.payment_mode = payment_mode,
                       !.is_paid = FALSE, !.status = CONFIRM]
    ELSE [order EXCEPT !.payment_mode = payment_mode]

\* A payment logic that marks a cash order paid at once.
ApplyPaymentModeCashPaid(order, payment_mode) ==
    IF payment_mode \in {CASH, ESEWA}
    THEN [order EXCEPT !.payment_mode = payment_mode,
                       !.is_paid = TRUE, !.status = CONFIRM]
    ELSE [order EXCEPT !.payment_mode = payment_mode]

\* A payment logic that leaves a cash order pending.
ApplyPaymentModeCashPending(order, payment_mode) ==
    IF payment_mode = CASH
    THEN [order EXCEPT !.payment_mode = payment_mode, !.is_paid = FALSE]
    ELSE IF payment_mode = ESEWA
    THEN [order EXCEPT !.payment_mode = payment_mode,
                       !.is_paid = TRUE, !.status = CONFIRM]
    ELSE [order EXCEPT !.payment_mode = payment_mode]

\* The payment logic of pay_order: the order once the mode is applied.
ApplyPaymentMode(order, payment_mode) ==
    IF payment_mode = CASH
    THEN [order EXCEPT !.payment_mode = payment_mode,
                       !.is_paid = FALSE, !.status = CONFIRM]
    ELSE IF payment_mode = ESEWA
    THEN [order EXCEPT !.payment_mode = payment_mode,
                       !.is_paid = TRUE, !.status = CONFIRM]
    ELSE [order EXCEPT !.payment_mode = payment_mode]

\* A pay_order without its guards.
PayOrderNoGuard(order) == OK

\* The guards of pay_order on the order it found: the detail of the
\* HTTPException it raises, OK when it raises none.
PayOrderGuard(order) ==
    IF order.status # PENDING THEN "Only pending orders can be paid"
    ELSE IF order.is_paid THEN "Order already paid"
    ELSE OK

\* PATCH /orders/{order_id}/pay
PayOrder(u, order_id, payment_mode) ==
    IF u \notin customers
    THEN Raise("pay_order", NoCustomer)
    ELSE IF ~OwnOrder(u, order_id)
    THEN Raise("pay_order", OrderNotFound)
    ELSE IF PayOrderGuard(orders[order_id]) # OK
    THEN Raise("pay_order", PayOrderGuard(orders[order_id]))
    ELSE /\ orders' = [orders EXCEPT
                          ![order_id] = ApplyPaymentMode(@, payment_mode)]
         /\ resp' = Response("pay_order", OK)
         /\ UNCHANGED <<customers, price, carts, uuids, calls>>

\* The writes of mark_order_paid.
MarkPaid(order) == [order EXCEPT !.is_paid = TRUE, !.status = CONFIRM]

\* A mark_order_paid that does not look at the payment mode.
MarkOrderPaidAnyMode(u, order_id) ==
    IF order_id \notin DOMAIN orders
    THEN Raise("mark_order_paid", OrderNotFound)
    ELSE IF orders[order_id].is_paid
    THEN Raise("mark_order_paid", "Order already marked as paid")
    ELSE /\ orders' = [orders EXCEPT ![order_id] = MarkPaid(@)]
         /\ resp' = Response("mark_order_paid", OK)
         /\ UNCHANGED <<customers, price, carts, uuids, calls>>

\* PATCH /orders/{order_id}/mark-paid : any authenticated user, any order.
MarkOrderPaid(u, order_id) ==
    IF order_id \notin DOMAIN orders
    THEN Raise("mark_order_paid", OrderNotFound)
    ELSE IF orders[order_id].is_paid
    THEN Raise("mark_order_paid", "Order already marked as paid")
    ELSE IF orders[order_id].payment_mode # CASH
    THEN Raise("mark_order_paid", "Only cash orders can be manually marked paid")
    ELSE /\ orders' = [orders EXCEPT ![order_id] = MarkPaid(@)]
         /\ resp' = Response("mark_order_paid", OK)
         /\ UNCHANGED <<customers, price, carts, uuids, calls>>

\* ------------------------------------------------------------ eSewa
\* A total that forgets the quantities.
OrderTotalNoQty(order) ==
    SumSeq([i \in DOMAIN order.items |-> order.items[i].price])

\* sum(item.price * item.qty for item in order.items)
OrderTotal(order) ==
    SumSeq([i \in DOMAIN order.items |-> order.items[i].price * order.items[i].qty])

\* The payload verify_esewa_payment posts to the provider: the amounts are
\* the items' total, and the tax and the charges are the constant "0".
VerifyPayload(order) ==
    [amt |-> OrderTotal(order), pid |-> order.transaction_uuid,
     txAmt |-> 0, tAmt |-> OrderTotal(order), pdc |-> 0, psc |-> 0]

\* What requests.post to the provider's verification endpoint can do: answer
\* 200 with "Success" in the body, answer anything else, or raise.
ProviderOutcomes == {"Success", "failure", "raise"}

VerificationFailed == "Payment verification failed"
AlreadyPaid == "Order already paid"
PaidViaBackend == "Order marked as paid via backend"

\* generate_transaction_uuid: str(uuid.uuid4()), a value not generated before.
GenerateTransactionUuid == uuids + 1

\* An initiate_esewa_payment that does not look at the status.
InitiateAnyStatus(order_id, tax_amount, product_service_charge, product_delivery_charge) ==
    IF order_id \notin DOMAIN orders
    THEN Raise("initiate_esewa_payment", OrderNotFound)
    ELSE /\ uuids < MaxUuid
         /\ uuids' = GenerateTransactionUuid
         /\ orders' = [orders EXCEPT
                          ![order_id].transaction_uuid = GenerateTransactionUuid]
         /\ resp' = [op |-> "initiate_esewa_payment", detail |-> OK,
                     ret |-> GenerateTransactionUuid,
                     amount |-> OrderTotal(orders[order_id]) + tax_amount
                                + product_service_charge + product_delivery_charge]
         /\ UNCHANGED <<customers, price, carts, calls>>

\* POST /payments/esewa/initiate : no authentication dependency.
InitiateEsewaPayment(order_id, tax_amount, product_service_charge, product_delivery_charge) ==
    IF order_id \notin DOMAIN orders
    THEN Raise("initiate_esewa_payment", OrderNotFound)
    ELSE IF orders[order_id].status # PENDING
    THEN Raise("initiate_esewa_payment", "Only pending orders can be paid")
    ELSE /\ uuids < MaxUuid
         /\ uuids' = GenerateTransactionUuid
         /\ orders' = [orders EXCEPT
                          ![order_id].transaction_uuid = GenerateTransactionUuid]
         /\ resp' = [op |-> "initiate_esewa_payment", detail |-> OK,
                     ret |-> GenerateTransactionUuid,
                     amount |-> OrderTotal(orders[order_id]) + tax_amount
                                + product_service_charge + product_delivery_charge]
         /\ UNCHANGED <<customers, price, carts, calls>>

\* A pay_order_backend that confirms the order and forgets to mark it paid.
PayBackendNotPaid(order) == [order EXCEPT !.status = CONFIRM]

\* A pay_order_backend that forgets the status.
PayBackendNoStatus(order) == [order EXCEPT !.is_paid = TRUE]

\* The writes of pay_order_backend once verification succeeded.
PayBackend(order) == [order EXCEPT !.is_paid = TRUE, !.status = CONFIRM]

\* A pay-backend that asks the provider before it looks at is_paid.
PayBackendEndpointVerifyFirst(u, order_id, outcome) ==
    IF order_id \notin DOMAIN orders
    THEN Raise("pay_order_backend", OrderNotFound)
    ELSE IF outcome = "raise"
    THEN Raise("pay_order_backend", Unhandled)
    ELSE IF outcome # "Success"
    THEN Raise("pay_order_backend", VerificationFailed)
    ELSE IF orders[order_id].is_paid
    THEN Raise("pay_order_backend", AlreadyPaid)
    ELSE /\ orders' = [orders EXCEPT ![order_id] = PayBackend(@)]
         /\ resp' = Response("pay_order_backend",
                              IF u \in customers THEN PaidViaBackend ELSE Unhandled)
         /\ UNCHANGED <<customers, price, carts, uuids, calls>>

\* A pay-backend that rejects the order when verification fails.
PayBackendEndpointRejecting(u, order_id, outcome) ==
    IF order_id \notin DOMAIN orders
    THEN Raise("pay_order_backend", OrderNotFound)
    ELSE IF orders[order_id].is_paid
    THEN Raise("pay_order_backend", AlreadyPaid)
    ELSE IF outcome = "raise"
    THEN Raise("pay_order_backend", Unhandled)
    ELSE IF outcome # "Success"
    THEN /\ orders' = [orders EXCEPT ![order_id].status = REJECTED]
         /\ resp' = Response("pay_order_backend", VerificationFailed)
         /\ UNCHANGED <<customers, price, carts, uuids, calls>>
    ELSE /\ orders' = [orders EXCEPT ![order_id] = PayBackend(@)]
         /\ resp' = Response("pay_order_backend",
                              IF u \in customers THEN PaidViaBackend ELSE Unhandled)
         /\ UNCHANGED <<customers, price, carts, uuids, calls>>

\* POST /payments/esewa/pay-backend/{order_id} : any authenticated user.  The
\* response reads current_user.customer.first_name after the commit.
PayOrderBackendEndpoint(u, order_id, outcome) ==
    IF order_id \notin DOMAIN orders
    THEN Raise("pay_order_backend", OrderNotFound)
    ELSE IF orders[order_id].is_paid
    THEN Raise("pay_order_backend", AlreadyPaid)
    ELSE IF outcome = "raise"
    THEN Raise("pay_order_backend", Unhandled)
    ELSE IF outcome # "Success"
    THEN Raise("pay_order_backend", VerificationFailed)
    ELSE /\ orders' = [orders EXCEPT ![order_id] = PayBackend(@)]
         /\ resp' = Response("pay_order_backend",
                              IF u \in customers THEN PaidViaBackend ELSE Unhandled)
         /\ UNCHANGED <<customers, price, carts, uuids, calls>>

\* pay_order_backend_endpoint step by step, for requests that run at once,
\* each in its own session.  First the query of the order and the test of
\* is_paid as the session read it.
ConfirmRead(r, u, order_id) ==
    /\ calls[r].pc = "idle"
    /\ IF order_id \notin DOMAIN orders
       THEN Raise("pay_order_backend", OrderNotFound)
       ELSE IF orders[order_id].is_paid
       THEN Raise("pay_order_backend", AlreadyPaid)
       ELSE /\ calls' = [calls EXCEPT ![r] =
                           [Idle EXCEPT !.pc = "verify", !.u = u, !.id = order_id,
                                        !.seen = Columns(orders[order_id])]]
            /\ UNCHANGED <<db, resp>>

\* Then verify_esewa_payment: the call to the provider.
ConfirmVerify(r, outcome) ==
    /\ calls[r].pc = "verify"
    /\ UNCHANGED db
    /\ IF outcome = "raise"
       THEN /\ resp' = Response("pay_order_backend", Unhandled)
            /\ calls' = [calls EXCEPT ![r] = Idle]
       ELSE IF outcome # "Success"
       THEN /\ resp' = Response("pay_order_backend", VerificationFailed)
            /\ calls' = [calls EXCEPT ![r] = Idle]
       ELSE /\ calls' = [calls EXCEPT ![r].pc = "commit"]
            /\ UNCHANGED resp

\* Then the writes of pay_order_backend and its commit.
ConfirmCommit(r) ==
    /\ calls[r].pc = "commit"
    /\ orders' = [orders EXCEPT ![calls[r].id] =
                     Flush(@, calls[r].seen, PayBackend(calls[r].seen))]
    /\ resp' = Response("pay_order_backend",
                         IF calls[r].u \in customers THEN PaidViaBackend ELSE Unhandled)
    /\ calls' = [calls EXCEPT ![r] = Idle]
    /\ UNCHANGED <<customers, price, carts, uuids>>

\* cancel_order step by step: the queries and the tests on what they read,
\* then the write of the status and the commit.
CancelRead(r, u, order_id) ==
    /\ calls[r].pc = "idle"
    /\ IF u \notin customers
       THEN Raise("cancel_order", NoCustomer)
       ELSE IF ~OwnOrder(u, order_id)
       THEN Raise("cancel_order", OrderNotFound)
       ELSE IF orders[order_id].status # PENDING
       THEN Raise("cancel_order", "Only pending orders can be cancelled")
       ELSE /\ calls' = [calls EXCEPT ![r] =
                           [Idle EXCEPT !.pc = "cancel", !.u = u, !.id = order_id,
                                        !.seen = Columns(orders[order_id])]]
            /\ UNCHANGED <<db, resp>>

CancelCommit(r) ==
    /\ calls[r].pc = "cancel"
    /\ orders' = [orders EXCEPT ![calls[r].id] =
                     Flush(@, calls[r].seen,
                           [calls[r].seen EXCEPT !.status = CANCELLED])]
    /\ resp' = Response("cancel_order", OK)
    /\ calls' = [calls EXCEPT ![r] = Idle]
    /\ UNCHANGED <<customers, price, carts, uuids>>

\* pay_order step by step: the queries and the guards on what they read,
\* then the payment logic and the commit.
PayRead(r, u, order_id, payment_mode) ==
    /\ calls[r].pc = "idle"
    /\ IF u \notin customers
       THEN Raise("pay_order", NoCustomer)
       ELSE IF ~OwnOrder(u, order_id)
       THEN Raise("pay_order", OrderNotFound)
       ELSE IF PayOrderGuard(orders[order_id]) # OK
       THEN Raise("pay_order", PayOrderGuard(orders[order_id]))
       ELSE /\ calls' = [calls EXCEPT ![r] =
                           [Idle EXCEPT !.pc = "pay", !.u = u, !.id = order_id,
                                        !.mode = payment_mode,
                                        !.seen = Columns(orders[order_id])]]
            /\ UNCHANGED <<db, resp>>

PayCommit(r) ==
    /\ calls[r].pc = "pay"
    /\ orders' = [orders EXCEPT ![calls[r].id] =
                     Flush(@, calls[r].seen,
                           ApplyPaymentMode(calls[r].seen, calls[r].mode))]
    /\ resp' = Response("pay_order", OK)
    /\ calls' = [calls EXCEPT ![r] = Idle]
    /\ UNCHANGED <<customers, price, carts, uuids>>

\* place_order_service step by step: the customer test and the cart query,
\* outside the try block; then the try block, with the storage call that
\* raises, if any.
PlaceRead(r, u) ==
    /\ calls[r].pc = "idle"
    /\ IF u \notin customers
       THEN Raise("place_order", NoCustomer)
       ELSE IF CartIsEmpty(CartItemsOf(u))
       THEN Raise("place_order", CartEmpty)
       ELSE /\ calls' = [calls EXCEPT ![r] =
                           [Idle EXCEPT !.pc = "place", !.u = u,
                                        !.lines = CartItemsOf(u)]]
            /\ UNCHANGED <<db, resp>>

\* The carts once the rows a session read are deleted; the DELETE of a row
\* that is gone by then deletes nothing.  Rows are told apart by what they
\* hold.
DeletedRows(customer_id, lines) ==
    [c \in DOMAIN carts |->
        IF carts[c].customer_id = customer_id /\ CartIsActive(carts[c])
        THEN [carts[c] EXCEPT !.items =
                 SelectSeq(@, LAMBDA it : \A i \in DOMAIN lines : lines[i] # it)]
        ELSE carts[c]]

PlaceCommit(r, fail) ==
    /\ calls[r].pc = "place"
    /\ calls' = [calls EXCEPT ![r] = Idle]
    /\ IF fail \in {"flush", "load_price", "bulk_save", "delete", "commit"}
       THEN resp' = Response("place_order", PlacementFailed) /\ UNCHANGED db
       ELSE /\ Len(orders) < MaxOrders
            /\ orders' = Append(orders, NewOrder(calls[r].u, calls[r].lines))
            /\ carts' = DeletedRows(calls[r].u, calls[r].lines)
            /\ resp' = Response("place_order",
                                 IF fail = "refresh" THEN PlacementFailed ELSE Created)
            /\ UNCHANGED <<customers, price, uuids>>

\* ------------------------------------------------------------ specification
\* The requests of each router, over the given sets of inputs.
AccountStep(U) ==
    \/ \E u \in U : CreateCustomer(u)
    \/ \E u \in U : MyOrders(u)

CatalogStep(P, PR) ==
    \/ \E p \in P, pr \in PR : CreateProduct(p, pr)
    \/ \E p \in P, pr \in PR : UpdateProduct(p, pr)
    \/ \E p \in P : DeleteProduct(p)

CartStep(U, P, Q) ==
    \/ \E c \in U : CreateCart(c)
    \/ \E c \in CartIds, p \in P, q \in Q : AddItemToCart(c, p, q)
    \/ \E c \in CartIds, i \in Lines, q \in Q : UpdateCartItem(c, i, q)
    \/ \E c \in CartIds, i \in Lines : RemoveCartItem(c, i)

PlaceStep(U, F) == \E u \in U, f \in F : PlaceOrder(u, f)

OrderStep(U, M) ==
    \/ \E u \in U, o \in OrderIds : CancelOrder(u, o)
    \/ \E u \in U, o \in OrderIds, m \in M : PayOrder(u, o, m)
    \/ \E u \in U, o \in OrderIds : MarkOrderPaid(u, o)

EsewaStep(U, FE, V) ==
    \/ \E o \in OrderIds, t \in FE, s \in FE, d \in FE :
          InitiateEsewaPayment(o, t, s, d)
    \/ \E u \in U, o \in OrderIds, v \in V : PayOrderBackendEndpoint(u, o, v)

\* Every request with every input.
Next ==
    \/ AccountStep(Users)
    \/ CatalogStep(Products, Prices)
    \/ CartStep(Users, Products, 0..MaxQty)
    \/ PlaceStep(Users, PlaceFailPoints)
    \/ OrderStep(Users, PaymentModeEnum)
    \/ EsewaStep(Users, Fees, ProviderOutcomes)

Spec == Init /\ [][Next]_vars

\* The order state machine: every order request and every payment request
\* of every user with every input, on the orders customer 1 places from one
\* cart holding one product.
NextLifecycle ==
    \/ \E u \in Users : CreateCustomer(u)
    \/ CreateProduct(1, 1)
    \/ carts = <<>> /\ CreateCart(1)
    \/ AddItemToCart(1, 1, MaxQty)
    \/ PlaceStep(Users, {"none"})
    \/ OrderStep(Users, PaymentModeEnum)
    \/ EsewaStep(Users, {0}, ProviderOutcomes)

SpecLifecycle == Init /\ [][NextLifecycle]_vars

\* Placement: every account, catalog, cart and placement request with every
\* input, up to the first placed order; that order stays as placed, and the
\* catalog goes on changing under it.
NextPlacement ==
    \/ AccountStep(Users)
    \/ CatalogStep(Products, Prices)
    \/ orders = <<>> /\ CartStep(Users, Products, 0..MaxQty)
    \/ orders = <<>> /\ PlaceStep(Users, PlaceFailPoints)

SpecPlacement == Init /\ [][NextPlacement]_vars

\* The gateway payload: the first order customer 1 places, from one cart of
\* any lines at any prices, and initiate_esewa_payment on it with every fee.
NextGateway ==
    \/ CreateCustomer(1)
    \/ \E p \in Products, pr \in Prices : CreateProduct(p, pr)
    \/ carts = <<>> /\ CreateCart(1)
    \/ orders = <<>> /\ \E p \in Products, q \in 1..MaxQty : AddItemToCart(1, p, q)
    \/ orders = <<>> /\ PlaceStep({1}, {"none"})
    \/ \E o \in OrderIds, t \in Fees, s \in Fees, d \in Fees :
          InitiateEsewaPayment(o, t, s, d)

SpecGateway == Init /\ [][NextGateway]_vars

\* Confirmations that run at once: the orders customer 1 places, and
\* pay-backend requests of every user on them, interleaved step by step.
NextConfirmRace ==
    \/ CreateCustomer(1)
    \/ CreateProduct(1, 1)
    \/ carts = <<>> /\ CreateCart(1)
    \/ AddItemToCart(1, 1, MaxQty)
    \/ PlaceStep({1}, {"none"})
    \/ \E r \in Requests, u \in Users, o \in OrderIds : ConfirmRead(r, u, o)
    \/ \E r \in Requests, v \in ProviderOutcomes : ConfirmVerify(r, v)
    \/ \E r \in Requests : ConfirmCommit(r)

SpecConfirmRace == Init /\ [][NextConfirmRace]_vars

\* Additions that run at once: one cart, and add-item requests on it with
\* every product and quantity, interleaved step by step.
NextCartRace ==
    \/ CreateCustomer(1)
    \/ \E p \in Products : CreateProduct(p, 1)
    \/ carts = <<>> /\ CreateCart(1)
    \/ \E r \in Requests, c \in CartIds, p \in Products, q \in 0..MaxQty :
          AddItemRead(r, c, p, q)
    \/ \E r \in Requests : AddItemCommit(r)

SpecCartRace == Init /\ [][NextCartRace]_vars

\* Retried confirmation: the first order of customer 1, initiate and cancel
\* on it, and pay-backend requests of every user on it with every answer of
\* the provider.  The caller goes on retrying and the provider ends up
\* answering success: a pay-backend request that meets success is not put
\* off forever.
NextRetry ==
    \/ \E u \in Users : CreateCustomer(u)
    \/ CreateProduct(1, 1)
    \/ carts = <<>> /\ CreateCart(1)
    \/ orders = <<>> /\ AddItemToCart(1, 1, MaxQty)
    \/ orders = <<>> /\ PlaceStep({1}, {"none"})
    \/ InitiateEsewaPayment(1, 0, 0, 0)
    \/ \E u \in Users : CancelOrder(u, 1)
    \/ \E u \in Users, v \in ProviderOutcomes : PayOrderBackendEndpoint(u, 1, v)

RetrySuccess == \E u \in Users : PayOrderBackendEndpoint(u, 1, "Success")

SpecRetry == Init /\ [][NextRetry]_vars /\ WF_vars(RetrySuccess)

\* Cancellation against payment: the first order of customer 1, and cancel,
\* pay and pay-backend requests on it, interleaved step by step.
NextCancelRace ==
    \/ CreateCustomer(1)
    \/ CreateProduct(1, 1)
    \/ carts = <<>> /\ CreateCart(1)
    \/ orders = <<>> /\ AddItemToCart(1, 1, MaxQty)
    \/ orders = <<>> /\ PlaceStep({1}, {"none"})
    \/ \E r \in Requests, u \in Users : CancelRead(r, u, 1)
    \/ \E r \in Requests : CancelCommit(r)
    \/ \E r \in Requests, u \in Users, m \in {CASH, ESEWA} : PayRead(r, u, 1, m)
    \/ \E r \in Requests : PayCommit(r)
    \/ \E r \in Requests, u \in Users : ConfirmRead(r, u, 1)
    \/ \E r \in Requests, v \in ProviderOutcomes : ConfirmVerify(r, v)
    \/ \E r \in Requests : ConfirmCommit(r)

SpecCancelRace == Init /\ [][NextCancelRace]_vars

\* Placements that run at once: one cart of customer 1, filled while no
\* placement is in flight, and place requests on it, interleaved step by step.
NextPlaceRace ==
    \/ CreateCustomer(1)
    \/ \E p \in Products : CreateProduct(p, 1)
    \/ carts = <<>> /\ CreateCart(1)
    \/ /\ \A r \in Requests : calls[r].pc = "idle"
       /\ \E p \in Products, q \in 1..MaxQty : AddItemToCart(1, p, q)
    \/ \E r \in Requests : PlaceRead(r, 1)
    \/ \E r \in Requests, f \in PlaceFailPoints \ {"query"} : PlaceCommit(r, f)

SpecPlaceRace == Init /\ [][NextPlaceRace]_vars

\* ------------------------------------------------------------ properties
Paid(o) == orders[o].is_paid
LastOrder == orders[Len(orders)]
Placed == Len(orders') = Len(orders) + 1
Answered(op, detail) == resp.op = op /\ resp.detail = detail

\* The lines of a cart or of an order as a bag of (product, quantity) pairs.
LinesBag(items) ==
    LET key(i) == <<items[i].product_id, items[i].qty>>
    IN [k \in {key(i) : i \in DOMAIN items} |->
           Cardinality({i \in DOMAIN items : key(i) = k})]

\* C1: in every reachable state, every order that is paid is Confirmed.
C1_PaidImpliesConfirmed ==
    \A o \in DOMAIN orders : Paid(o) => orders[o].status = CONFIRM

\* A pending order was paid through the backend verification.
C1_Witness ==
    /\ Answered("pay_order_backend", PaidViaBackend)
    /\ \E o \in DOMAIN orders :
          Paid(o) /\ orders[o].status = CONFIRM /\ orders[o].payment_mode = PM_PENDING

\* C2: Confirmed, Cancelled and Rejected are terminal: no step changes the
\* status of an order that is in one of them.
C2_TerminalStatus ==
    [][\A o \in DOMAIN orders :
          orders[o].status \in {CONFIRM, CANCELLED, REJECTED}
              => orders'[o].status = orders[o].status]_vars

\* C3: once an order is paid it stays paid: no step sets is_paid back to false.
C3_PaidStaysPaid ==
    [][\A o \in DOMAIN orders : Paid(o) => orders'[o].is_paid]_vars

\* pay_order was refused on a paid order, which is still paid.
C3_Witness ==
    /\ Answered("pay_order", "Only pending orders can be paid")
    /\ orders # <<>>
    /\ \A o \in DOMAIN orders : Paid(o)

\* C4: a successful pay_order with mode eSewa leaves the order unpaid.
C4_GatewaySelectLeavesUnpaid ==
    [][(resp'.op = "pay_order" /\ resp'.detail = OK) =>
          \A u \in Users, o \in DOMAIN orders :
              PayOrder(u, o, ESEWA) => ~orders'[o].is_paid]_vars

\* C5: a successful place appends exactly one order, owned by the caller,
\* whose (product, quantity) lines are the lines of the caller's carts at
\* call time; afterwards those carts still exist and hold no line, and the
\* other carts are as they were.
C5_PlaceConservesCart ==
    [][(resp'.op = "place_order" /\ resp'.detail = Created) =>
          LET u == orders'[Len(orders')].customer_id
          IN /\ Placed
             /\ SubSeq(orders', 1, Len(orders)) = orders
             /\ CartItemsOf(u) # <<>>
             /\ LinesBag(orders'[Len(orders')].items) = LinesBag(CartItemsOf(u))
             /\ DOMAIN carts' = DOMAIN carts
             /\ \A c \in DOMAIN carts :
                   /\ carts'[c].customer_id = carts[c].customer_id
                   /\ carts[c].customer_id = u => carts'[c].items = <<>>
                   /\ carts[c].customer_id # u => carts'[c] = carts[c]]_vars

\* An order of two lines of different products was just placed, and its
\* owner's cart is there and empty.
C5_Witness ==
    /\ Answered("place_order", Created)
    /\ orders # <<>>
    /\ Len(LastOrder.items) = 2
    /\ LastOrder.items[1].product_id # LastOrder.items[2].product_id
    /\ \E c \in DOMAIN carts :
          carts[c].customer_id = LastOrder.customer_id /\ carts[c].items = <<>>

\* C6: place by a customer whose carts hold no line changes neither the
\* orders nor the carts, and answers "Cart is empty" whenever the cart query
\* itself went through.
C6_EmptyCartPlacesNothing ==
    [][resp'.op = "place_order" =>
          \A u \in customers, f \in PlaceFailPoints :
              (CartItemsOf(u) = <<>> /\ PlaceOrder(u, f)) =>
                  /\ UNCHANGED <<orders, carts>>
                  /\ f # "query" => resp'.detail = CartEmpty]_vars

\* A customer with an empty cart was refused, and there is no order.
C6_Witness ==
    /\ Answered("place_order", CartEmpty)
    /\ orders = <<>>
    /\ \E c \in DOMAIN carts : carts[c].customer_id \in customers /\ carts[c].items = <<>>

\* C7: a storage error at any step of place answers "Order placement
\* failed" and leaves the orders and the carts as they were.
C7_PlaceFailureRollsBack ==
    [][resp'.op = "place_order" =>
          \A u \in customers, f \in PlaceFailPoints \ {"none"} :
              (CartItemsOf(u) # <<>> /\ PlaceOrder(u, f)) =>
                  /\ resp'.detail = PlacementFailed
                  /\ UNCHANGED <<orders, carts>>]_vars

\* C8: every order place creates is Pending, of payment mode unset, unpaid
\* and without a transaction reference.
C8_NewOrderPendingUnpaid ==
    [][Len(orders') > Len(orders) =>
          /\ orders'[Len(orders')].status = PENDING
          /\ orders'[Len(orders')].payment_mode = PM_PENDING
          /\ orders'[Len(orders')].is_paid = FALSE
          /\ orders'[Len(orders')].transaction_uuid = NoRef]_vars

\* The first order of the table was just placed, of a single line.
C8_Witness ==
    /\ resp.op = "place_order"
    /\ Len(orders) = 1
    /\ Len(orders[1].items) = 1
    /\ orders[1].status = PENDING /\ ~orders[1].is_paid

\* C9: each item of a new order carries the catalog price its product had
\* when the order was placed, and update_product changes no item price and
\* no order total.
C9_PriceSnapshot ==
    [][/\ Len(orders') > Len(orders) =>
            \A i \in DOMAIN orders'[Len(orders')].items :
                LET it == orders'[Len(orders')].items[i]
                IN it.price = price[it.product_id] /\ it.price \in Prices
       /\ resp'.op = "update_product" =>
            \A o \in DOMAIN orders :
                /\ orders'[o].items = orders[o].items
                /\ OrderTotal(orders'[o]) = OrderTotal(orders[o])]_vars

\* The catalog price of a product was just changed away from the price an
\* order item of that product carries.
C9_Witness ==
    /\ Answered("update_product", OK)
    /\ \E o \in DOMAIN orders : \E i \in DOMAIN orders[o].items :
          LET it == orders[o].items[i]
          IN price[it.product_id] # 0 /\ price[it.product_id] # it.price

\* C10: no step changes the items or the customer of an order once placed.
C10_OrderItemsImmutable ==
    [][\A o \in DOMAIN orders :
          /\ orders'[o].items = orders[o].items
          /\ orders'[o].customer_id = orders[o].customer_id]_vars

\* C11: cancel_order succeeds exactly when the caller owns the order and the
\* order is Pending, and then sets the status to Cancelled and nothing else;
\* in every other case it answers an error and changes no order; and every
\* step that takes an order into Cancelled takes it there from Pending.
C11_CancelOnlyPendingOwner ==
    [][/\ resp'.op = "cancel_order" =>
            \A u \in Users, o \in OrderIds :
                CancelOrder(u, o) =>
                    IF OwnOrder(u, o) /\ u \in customers /\ orders[o].status = PENDING
                    THEN /\ resp'.detail = OK
                         /\ orders' = [orders EXCEPT ![o].status = CANCELLED]
                    ELSE resp'.detail # OK /\ orders' = orders
       /\ \A o \in DOMAIN orders :
            (orders'[o].status = CANCELLED /\ orders[o].status # CANCELLED)
                => orders[o].status = PENDING]_vars

\* Cancel was refused on an order that is not pending, while another order
\* stands cancelled.
C11_Witness ==
    /\ Answered("cancel_order", "Only pending orders can be cancelled")
    /\ \E o \in DOMAIN orders : orders[o].status = CANCELLED
    /\ \E o \in DOMAIN orders : orders[o].status = CONFIRM

\* C12: pay_order succeeds only on an order that is Pending and unpaid; when
\* it fails no order changes; with mode Cash a successful call leaves the
\* order with payment mode Cash, status Confirmed and is_paid false.
C12_PayOnlyPendingUnpaid ==
    [][resp'.op = "pay_order" =>
          \A u \in Users, o \in OrderIds, m \in PaymentModeEnum :
              PayOrder(u, o, m) =>
                  /\ resp'.detail = OK =>
                        /\ OwnOrder(u, o)
                        /\ orders[o].status = PENDING /\ ~orders[o].is_paid
                  /\ (OwnOrder(u, o) /\ (orders[o].status # PENDING \/ orders[o].is_paid))
                        => resp'.detail # OK
                  /\ resp'.detail # OK => orders' = orders
                  /\ (resp'.detail = OK /\ m = CASH) =>
                        orders' = [orders EXCEPT ![o].payment_mode = CASH,
                                                 ![o].status = CONFIRM,
                                                 ![o].is_paid = FALSE]]_vars

\* A pending order was just switched to cash: confirmed, not paid.
C12_Witness ==
    /\ Answered("pay_order", OK)
    /\ \E o \in DOMAIN orders :
          /\ orders[o].payment_mode = CASH
          /\ orders[o].status = CONFIRM
          /\ ~orders[o].is_paid

\* C13: mark_order_paid on an order that is already paid answers success and
\* changes nothing.
C13_MarkPaidIdempotent ==
    [][resp'.op = "mark_order_paid" =>
          \A u \in Users, o \in DOMAIN orders :
              (orders[o].is_paid /\ MarkOrderPaid(u, o)) =>
                  resp'.detail = OK /\ orders' = orders]_vars

\* C14: mark_order_paid on an order whose payment mode is not Cash answers
\* an error and changes no order; it sets is_paid only on cash orders.
C14_MarkPaidOnlyCash ==
    [][resp'.op = "mark_order_paid" =>
          \A u \in Users, o \in DOMAIN orders :
              MarkOrderPaid(u, o) =>
                  /\ orders[o].payment_mode # CASH =>
                        resp'.detail # OK /\ orders' = orders
                  /\ (orders'[o].is_paid /\ ~orders[o].is_paid) =>
                        orders[o].payment_mode = CASH]_vars

\* mark_order_paid was refused on an unpaid order of unset payment mode.
C14_Witness ==
    /\ Answered("mark_order_paid", "Only cash orders can be manually marked paid")
    /\ \E o \in DOMAIN orders : orders[o].payment_mode = PM_PENDING /\ ~orders[o].is_paid

\* C15: every order of payment mode Cash is Confirmed, and a successful
\* mark_order_paid sets is_paid on one order and changes nothing else, its
\* status included.
C15_MarkPaidKeepsStatus ==
    [][/\ \A o \in DOMAIN orders :
            orders[o].payment_mode = CASH => orders[o].status = CONFIRM
       /\ (resp'.op = "mark_order_paid" /\ resp'.detail = OK) =>
            \E o \in DOMAIN orders :
                /\ ~orders[o].is_paid
                /\ orders' = [orders EXCEPT ![o].is_paid = TRUE]]_vars

\* A cash order was just marked paid and is Confirmed.
C15_Witness ==
    /\ Answered("mark_order_paid", OK)
    /\ \E o \in DOMAIN orders :
          orders[o].payment_mode = CASH /\ orders[o].is_paid /\ orders[o].status = CONFIRM

InitiateAnswered == resp'.op = "initiate_esewa_payment"

\* The sum of unit price times quantity over the first n items.
RECURSIVE LineSum(_, _)
LineSum(items, n) ==
    IF n = 0 THEN 0 ELSE items[n].price * items[n].qty + LineSum(items, n - 1)

\* C16: initiate_esewa_payment succeeds only on a Pending order; on an order
\* of any other status it answers "Only pending orders can be paid",
\* generates no uuid, returns none and changes no order.
C16_InitiateOnlyPending ==
    [][InitiateAnswered =>
          \A o \in DOMAIN orders, t \in Fees, s \in Fees, d \in Fees :
              InitiateEsewaPayment(o, t, s, d) =>
                  /\ resp'.detail = OK => orders[o].status = PENDING
                  /\ orders[o].status # PENDING =>
                        /\ resp'.detail = "Only pending orders can be paid"
                        /\ resp'.ret = NoRef
                        /\ uuids' = uuids
                        /\ orders' = orders]_vars

\* Initiate was refused on a cancelled order, which holds no reference.
C16_Witness ==
    /\ Answered("initiate_esewa_payment", "Only pending orders can be paid")
    /\ \E o \in DOMAIN orders :
          orders[o].status = CANCELLED /\ orders[o].transaction_uuid = NoRef
    /\ \A o \in DOMAIN orders : orders[o].status # PENDING

\* C17: initiate_esewa_payment on an order that already stores a reference
\* returns that reference and leaves it stored.
C17_InitiateIdempotent ==
    [][(InitiateAnswered /\ resp'.detail = OK) =>
          \A o \in DOMAIN orders, t \in Fees, s \in Fees, d \in Fees :
              (orders[o].transaction_uuid # NoRef /\ InitiateEsewaPayment(o, t, s, d)) =>
                  /\ resp'.ret = orders[o].transaction_uuid
                  /\ orders'[o].transaction_uuid = orders[o].transaction_uuid]_vars

\* C18: a successful initiate_esewa_payment stores the reference it returns
\* on an order; a stored reference stays the one every later request reads;
\* and no two orders store the same reference.
C18_ReferenceDurable ==
    [][/\ (InitiateAnswered /\ resp'.detail = OK) =>
            /\ resp'.ret # NoRef
            /\ \E o \in DOMAIN orders : orders'[o].transaction_uuid = resp'.ret
       /\ \A o \in DOMAIN orders :
            orders[o].transaction_uuid # NoRef =>
                orders'[o].transaction_uuid = orders[o].transaction_uuid
       /\ \A o1 \in DOMAIN orders', o2 \in DOMAIN orders' :
            (o1 # o2 /\ orders'[o1].transaction_uuid # NoRef) =>
                orders'[o1].transaction_uuid # orders'[o2].transaction_uuid]_vars

\* C19: the amount initiate_esewa_payment returns is the sum over the
\* order's items of price times quantity, plus the three fees of the request.
C19_InitiateTotal ==
    [][(InitiateAnswered /\ resp'.detail = OK) =>
          \A o \in DOMAIN orders, t \in Fees, s \in Fees, d \in Fees :
              InitiateEsewaPayment(o, t, s, d) =>
                  /\ t >= 0 /\ s >= 0 /\ d >= 0
                  /\ resp'.amount =
                        LineSum(orders[o].items, Len(orders[o].items)) + t + s + d]_vars

\* Initiate just answered for an order of two lines, one of them of more
\* than one unit, with an amount above the items' sum.
C19_Witness ==
    /\ Answered("initiate_esewa_payment", OK)
    /\ \E o \in DOMAIN orders :
          /\ orders[o].transaction_uuid = resp.ret
          /\ Len(orders[o].items) = 2
          /\ \E i \in DOMAIN orders[o].items : orders[o].items[i].qty > 1
          /\ resp.amount > LineSum(orders[o].items, 2)

\* C20: pay-backend on an unpaid order that stores no reference fails
\* without asking the provider and changes no order.
C20_ConfirmNeedsReference ==
    [][resp'.op = "pay_order_backend" =>
          \A u \in Users, o \in DOMAIN orders, v \in ProviderOutcomes :
              (/\ ~orders[o].is_paid
               /\ orders[o].transaction_uuid = NoRef
               /\ PayOrderBackendEndpoint(u, o, v)) =>
                  /\ orders' = orders
                  /\ resp'.detail \notin {PaidViaBackend, VerificationFailed, Unhandled}]_vars

ConfirmAnswered == resp'.op = "pay_order_backend"

\* C21: pay-backend on a paid order answers "Order already paid" whatever
\* the provider would say, so on every repetition, and changes nothing.
C21_ConfirmPaidNoOp ==
    [][ConfirmAnswered =>
          \A u \in Users, o \in DOMAIN orders, v \in ProviderOutcomes :
              (orders[o].is_paid /\ PayOrderBackendEndpoint(u, o, v)) =>
                  /\ resp' = Response("pay_order_backend", AlreadyPaid)
                  /\ UNCHANGED db]_vars

\* pay-backend just answered "Order already paid" for an order paid through
\* the gateway.
C21_Witness ==
    /\ Answered("pay_order_backend", AlreadyPaid)
    /\ \E o \in DOMAIN orders : Paid(o) /\ orders[o].payment_mode = ESEWA

\* C22: when the provider answers success, pay-backend leaves the order paid,
\* Confirmed and of payment mode eSewa.
C22_ConfirmSetsGateway ==
    [][ConfirmAnswered =>
          \A u \in Users, o \in DOMAIN orders :
              (~orders[o].is_paid /\ PayOrderBackendEndpoint(u, o, "Success")) =>
                  /\ orders'[o].is_paid
                  /\ orders'[o].status = CONFIRM
                  /\ orders'[o].payment_mode = ESEWA]_vars

\* C23: when the provider answers failure, pay-backend on an unpaid order
\* answers "Payment verification failed" and changes nothing; when it answers
\* success, from any such state, the order becomes paid and Confirmed.
C23_ConfirmFailureThenRetry ==
    [][ConfirmAnswered =>
          \A u \in Users, o \in DOMAIN orders :
              ~orders[o].is_paid =>
                  /\ PayOrderBackendEndpoint(u, o, "failure") =>
                        /\ resp'.detail = VerificationFailed
                        /\ UNCHANGED db
                  /\ PayOrderBackendEndpoint(u, o, "Success") =>
                        orders'[o].is_paid /\ orders'[o].status = CONFIRM]_vars

\* Verification just failed and the only order is still pending and unpaid.
C23_Witness ==
    /\ Answered("pay_order_backend", VerificationFailed)
    /\ Len(orders) = 1
    /\ orders[1].status = PENDING /\ ~orders[1].is_paid

\* C24: every outcome of the provider call other than success makes
\* pay-backend on an unpaid order answer "Payment verification failed" and
\* change nothing.
C24_ProviderErrorIsFailure ==
    [][ConfirmAnswered =>
          \A u \in Users, o \in DOMAIN orders, v \in ProviderOutcomes \ {"Success"} :
              (~orders[o].is_paid /\ PayOrderBackendEndpoint(u, o, v)) =>
                  /\ resp'.detail = VerificationFailed
                  /\ UNCHANGED db]_vars

\* C26: cancel, pay and pay-backend by a user who does not own the order
\* answer "not found" or "unauthorized" and change no order.
C26_OnlyOwnerChangesOrder ==
    [][resp'.op \in {"cancel_order", "pay_order", "pay_order_backend"} =>
          \A u \in Users, o \in DOMAIN orders :
              orders[o].customer_id # u =>
                  \A m \in PaymentModeEnum, v \in ProviderOutcomes :
                      (\/ CancelOrder(u, o)
                       \/ PayOrder(u, o, m)
                       \/ PayOrderBackendEndpoint(u, o, v)) =>
                          /\ orders' = orders
                          /\ resp'.detail \in {OrderNotFound, NoCustomer, "Unauthorized"}]_vars

\* C27: my_orders changes no stored state.
C27_MyOrdersReadOnly ==
    [][resp'.op = "my_orders" => UNCHANGED db]_vars

\* C28: every cart line has a quantity of at least one.
C28_CartQtyPositive ==
    \A c \in DOMAIN carts : \A i \in DOMAIN carts[c].items :
        carts[c].items[i].qty \in Nat \ {0}

\* An update to quantity 0 was just refused and the line is still there.
C28_Witness ==
    /\ Answered("update_cart_item", Unprocessable)
    /\ \E c \in DOMAIN carts : carts[c].items # <<>>

\* C30: no two carts belong to the same customer.
C30_OneCartPerCustomer ==
    \A c1 \in DOMAIN carts, c2 \in DOMAIN carts :
        carts[c1].customer_id = carts[c2].customer_id => c1 = c2

\* C25: of the pay-backend requests that run at once on an order, at most
\* one applies the paid transition: none commits it on an order that is
\* already paid.
C25_PaidAppliedOnce ==
    [][\A r \in Requests :
          (calls[r].pc = "commit" /\ ConfirmCommit(r)) =>
              ~orders[calls[r].id].is_paid]_vars

\* C29: a cart holds at most one line per product, and an add-item for a
\* product the cart holds adds no line and raises that line's quantity by
\* the amount added, however the requests interleave.
C29_OneLinePerProduct ==
    [][/\ \A c \in DOMAIN carts' :
            \A i \in DOMAIN carts'[c].items, j \in DOMAIN carts'[c].items :
                carts'[c].items[i].product_id = carts'[c].items[j].product_id
                    => i = j
       /\ \A r \in Requests :
            (calls[r].pc = "add" /\ AddItemCommit(r)) =>
                LET c == calls[r]
                    i == FirstItem(carts[c.id].items, c.product_id)
                IN i # 0 =>
                      /\ Len(carts'[c.id].items) = Len(carts[c.id].items)
                      /\ carts'[c.id].items[i].qty
                            = carts[c.id].items[i].qty + c.qty]_vars

\* C34: the total amount pay-backend submits to the provider for an order is
\* the amount initiate_esewa_payment returned for it.
C34_VerifyAmountIsSignedAmount ==
    [][(InitiateAnswered /\ resp'.detail = OK) =>
          \A o \in DOMAIN orders :
              orders'[o].transaction_uuid = resp'.ret =>
                  VerifyPayload(orders'[o]).tAmt = resp'.amount]_vars

\* C35: every Pending order is unpaid and of unset payment mode, and every
\* successful pay_order with mode Cash or eSewa, mark_order_paid and
\* pay-backend leaves the order it wrote out of Pending.
C35_PendingIsUnpaidUnset ==
    [][/\ \A o \in DOMAIN orders :
            orders[o].status = PENDING =>
                ~orders[o].is_paid /\ orders[o].payment_mode = PM_PENDING
       /\ (/\ resp'.op \in {"pay_order", "mark_order_paid", "pay_order_backend"}
           /\ resp'.detail \in {OK, PaidViaBackend}) =>
            \A o \in DOMAIN orders :
                (orders'[o] # orders[o] /\ orders'[o].payment_mode # PM_PENDING)
                    => orders'[o].status # PENDING
       /\ ConfirmAnswered =>
            \A o \in DOMAIN orders :
                orders'[o] # orders[o] => orders'[o].status # PENDING]_vars

\* pay_order just succeeded with the unset mode, and every order is still
\* pending, unpaid and of unset mode.
C35_Witness ==
    /\ Answered("pay_order", OK)
    /\ orders # <<>>
    /\ \A o \in DOMAIN orders :
          /\ orders[o].status = PENDING
          /\ ~orders[o].is_paid
          /\ orders[o].payment_mode = PM_PENDING

\* C36: the status of every order is Pending, Confirmed or Cancelled.
C36_NeverRejected ==
    \A o \in DOMAIN orders : orders[o].status \in {PENDING, CONFIRM, CANCELLED}

\* The first order stands cancelled and the second confirmed and paid.
C36_Witness ==
    /\ Len(orders) = 2
    /\ orders[1].status = CANCELLED
    /\ orders[2].status = CONFIRM /\ Paid(2)

\* C33: an unpaid order that stores a transaction reference, confirmed again
\* after each failed verification until the provider answers success, ends
\* up paid and Confirmed.
C33_RetryEventuallyPaid ==
    (/\ orders # <<>>
     /\ ~orders[1].is_paid
     /\ orders[1].transaction_uuid # NoRef)
        ~> (orders # <<>> /\ orders[1].is_paid /\ orders[1].status = CONFIRM)

\* Verification just failed on the order, which is unpaid and stores a
\* reference.
C33_Witness ==
    /\ Answered("pay_order_backend", VerificationFailed)
    /\ orders # <<>>
    /\ ~orders[1].is_paid
    /\ orders[1].transaction_uuid # NoRef

\* C31: however cancel interleaves with pay and pay-backend on an order, a
\* Cancelled order is unpaid and of unset payment mode.
C31_CancelledNeverPaid ==
    \A o \in DOMAIN orders :
        orders[o].status = CANCELLED =>
            ~orders[o].is_paid /\ orders[o].payment_mode = PM_PENDING

\* C32: a placement creates its order from lines that are in the customer's
\* cart when it commits: of the placements that run at once on the same
\* lines, at most one creates an order.
C32_PlaceOncePerCheckout ==
    [][\A r \in Requests :
          (/\ calls[r].pc = "place"
           /\ Len(orders') > Len(orders)
           /\ \E f \in PlaceFailPoints : PlaceCommit(r, f)) =>
              \A i \in DOMAIN calls[r].lines :
                  \E j \in DOMAIN CartItemsOf(calls[r].u) :
                      CartItemsOf(calls[r].u)[j] = calls[r].lines[i]]_vars

====
